---- MODULE Spec2Model ----
(***************************************************************************)
(* A model of bytebufrs::RingBuf (src/src/lib.rs): a fixed-size ring       *)
(* buffer over an owned byte region with a read and a write cursor.        *)
(*                                                                         *)
(* Rust slices are 0-indexed, TLA+ sequences 1-indexed: the byte at Rust   *)
(* index i of a region d is d[i + 1].  usize is modelled as an unsigned    *)
(* integer of UsizeBits bits; an overflowing + or - panics in a debug      *)
(* build and wraps in a release build, and debug_assert! is checked in a   *)
(* debug build only.                                                       *)
(***************************************************************************)
EXTENDS Integers, Sequences, FiniteSets, TLC

VARIABLES build, status, data, read_pos, write_pos, abs, last

vars == <<build, status, data, read_pos, write_pos, abs, last>>

(* ------------------------------ bounds --------------------------------- *)

\* width of the modelled usize
UsizeBits == 4
\* largest capacity / vector length handed to a constructor
MaxCap == 2
\* largest caller slice (src of write, dest of peek/read)
MaxBuf == 3
\* byte values are 0..MaxByte
MaxByte == 1

Usize == 2 ^ UsizeBits
MaxUsize == Usize - 1
Byte == 0 .. MaxByte

RECURSIVE SeqsUpTo(_)
SeqsUpTo(n) ==
    IF n = 0 THEN {<<>>}
    ELSE LET S == SeqsUpTo(n - 1)
         IN  S \cup {Append(s, b) : s \in {t \in S : Len(t) = n - 1}, b \in Byte}

\* the slices a caller hands to write
Srcs == SeqsUpTo(MaxBuf)
\* the destinations a caller hands to peek and read: any length, pre-filled
Dests == {[i \in 1 .. n |-> f] : n \in 0 .. MaxBuf, f \in Byte}
Vecs == SeqsUpTo(MaxCap)
Boxes == SeqsUpTo(MaxCap + 1)
Caps == (0 .. MaxCap) \cup {MaxUsize}
\* the counts handed to advance_read_pos: up to one past any possible len()
Counts == 0 .. (MaxCap + 1)

(* --------------------------- Rust primitives --------------------------- *)

Min(a, b) == IF a <= b THEN a ELSE b

\* usize subtraction x - y
Sub(b, x, y) == [panic |-> (b = "debug" /\ y > x), val |-> (x - y) % Usize]

\* usize addition x + y
Add(b, x, y) == [panic |-> (b = "debug" /\ x + y > MaxUsize), val |-> (x + y) % Usize]

\* the slice d[lo..hi] exists
RangeOK(lo, hi, n) == lo <= hi /\ hi <= n

\* d[lo..hi]
Slice(d, lo, hi) == SubSeq(d, lo + 1, hi)

\* dst[at..at + src.len()].copy_from_slice(src)
CopyInto(dst, at, src) ==
    [i \in 1 .. Len(dst) |->
        IF i - 1 >= at /\ i - 1 < at + Len(src) THEN src[i - at] ELSE dst[i]]

\* vec!(0; n)
Zeros(n) == [i \in 1 .. n |-> 0]

(* ------------------------------ RingBuf -------------------------------- *)

RingBuf(d, rp, wp) == [data |-> d, read_pos |-> rp, write_pos |-> wp]

self == RingBuf(data, read_pos, write_pos)

\* the condition of the two debug assertions
check_valid(s) == s.read_pos < Len(s.data) /\ s.write_pos < Len(s.data)

\* check_valid!(self) aborts
AssertFails(b, s) == b = "debug" /\ ~check_valid(s)

\* capacity() as it would be without the sentinel slot
capacity_no_sentinel(b, s) ==
    [panic |-> AssertFails(b, s), val |-> Len(s.data)]

\* capacity() that saturates at 0 instead of underflowing
capacity_saturating(b, s) ==
    [panic |-> AssertFails(b, s), val |-> IF Len(s.data) = 0 THEN 0 ELSE Len(s.data) - 1]

capacity(b, s) ==
    LET c == Sub(b, Len(s.data), 1)
    IN  [panic |-> AssertFails(b, s) \/ c.panic, val |-> c.val]

\* len() with >= for > in the comparison of the cursors
len_ge(b, s) ==
    IF s.read_pos >= s.write_pos
    THEN LET x == Sub(b, Len(s.data), s.read_pos)
             y == Add(b, x.val, s.write_pos)
         IN  [panic |-> AssertFails(b, s) \/ x.panic \/ y.panic, val |-> y.val]
    ELSE LET x == Sub(b, s.write_pos, s.read_pos)
         IN  [panic |-> AssertFails(b, s) \/ x.panic, val |-> x.val]

\* len() with the sentinel slot left out of the wrapped case
len_short(b, s) ==
    IF s.read_pos > s.write_pos
    THEN LET c == Sub(b, Len(s.data), 1)
             x == Sub(b, c.val, s.read_pos)
             y == Add(b, x.val, s.write_pos)
         IN  [panic |-> AssertFails(b, s) \/ c.panic \/ x.panic \/ y.panic, val |-> y.val]
    ELSE LET x == Sub(b, s.write_pos, s.read_pos)
         IN  [panic |-> AssertFails(b, s) \/ x.panic, val |-> x.val]

len(b, s) ==
    IF s.read_pos > s.write_pos
    THEN LET x == Sub(b, Len(s.data), s.read_pos)
             y == Add(b, x.val, s.write_pos)
         IN  [panic |-> AssertFails(b, s) \/ x.panic \/ y.panic, val |-> y.val]
    ELSE LET x == Sub(b, s.write_pos, s.read_pos)
         IN  [panic |-> AssertFails(b, s) \/ x.panic, val |-> x.val]

is_empty(b, s) ==
    [panic |-> AssertFails(b, s), val |-> (s.read_pos = s.write_pos)]

\* clear() that resets the read position only
clear_read_pos_only(b, s) ==
    [panic |-> AssertFails(b, s), rb |-> RingBuf(s.data, 0, s.write_pos)]

clear(b, s) ==
    [panic |-> AssertFails(b, s), rb |-> RingBuf(s.data, 0, 0)]

\* advance_read_pos that refuses count == len()
advance_read_pos_strict(b, s, count) ==
    LET l == len(b, s)
        sum == Add(b, s.read_pos, count)
        wrapped == Sub(b, sum.val, Len(s.data))
    IN  IF AssertFails(b, s) \/ l.panic
        THEN [panic |-> TRUE, err |-> FALSE, rb |-> s]
        ELSE IF count >= l.val
        THEN [panic |-> FALSE, err |-> TRUE, rb |-> s]
        ELSE IF sum.panic
        THEN [panic |-> TRUE, err |-> FALSE, rb |-> s]
        ELSE IF sum.val >= Len(s.data)
        THEN [panic |-> wrapped.panic, err |-> FALSE,
              rb |-> RingBuf(s.data, wrapped.val, s.write_pos)]
        ELSE [panic |-> FALSE, err |-> FALSE,
              rb |-> RingBuf(s.data, sum.val, s.write_pos)]

\* advance_read_pos that bounds count by capacity() instead of len()
advance_read_pos_to_capacity(b, s, count) ==
    LET l == len(b, s)
        sum == Add(b, s.read_pos, count)
        wrapped == Sub(b, sum.val, Len(s.data))
    IN  IF AssertFails(b, s) \/ l.panic
        THEN [panic |-> TRUE, err |-> FALSE, rb |-> s]
        ELSE IF count > Len(s.data) - 1
        THEN [panic |-> FALSE, err |-> TRUE, rb |-> s]
        ELSE IF sum.panic
        THEN [panic |-> TRUE, err |-> FALSE, rb |-> s]
        ELSE IF sum.val >= Len(s.data)
        THEN [panic |-> wrapped.panic, err |-> FALSE,
              rb |-> RingBuf(s.data, wrapped.val, s.write_pos)]
        ELSE [panic |-> FALSE, err |-> FALSE,
              rb |-> RingBuf(s.data, sum.val, s.write_pos)]

\* advance_read_pos that wraps only past the end of the region, not on it
advance_read_pos_no_wrap_at_end(b, s, count) ==
    LET l == len(b, s)
        sum == Add(b, s.read_pos, count)
        wrapped == Sub(b, sum.val, Len(s.data))
    IN  IF AssertFails(b, s) \/ l.panic
        THEN [panic |-> TRUE, err |-> FALSE, rb |-> s]
        ELSE IF count > l.val
        THEN [panic |-> FALSE, err |-> TRUE, rb |-> s]
        ELSE IF sum.panic
        THEN [panic |-> TRUE, err |-> FALSE, rb |-> s]
        ELSE IF sum.val > Len(s.data)
        THEN [panic |-> wrapped.panic, err |-> FALSE,
              rb |-> RingBuf(s.data, wrapped.val, s.write_pos)]
        ELSE [panic |-> FALSE, err |-> FALSE,
              rb |-> RingBuf(s.data, sum.val, s.write_pos)]

advance_read_pos(b, s, count) ==
    LET l == len(b, s)
        sum == Add(b, s.read_pos, count)
        wrapped == Sub(b, sum.val, Len(s.data))
    IN  IF AssertFails(b, s) \/ l.panic
        THEN [panic |-> TRUE, err |-> FALSE, rb |-> s]
        ELSE IF count > l.val
        THEN [panic |-> FALSE, err |-> TRUE, rb |-> s]
        ELSE IF sum.panic
        THEN [panic |-> TRUE, err |-> FALSE, rb |-> s]
        ELSE IF sum.val >= Len(s.data)
        THEN [panic |-> wrapped.panic, err |-> FALSE,
              rb |-> RingBuf(s.data, wrapped.val, s.write_pos)]
        ELSE [panic |-> FALSE, err |-> FALSE,
              rb |-> RingBuf(s.data, sum.val, s.write_pos)]

\* peek that measures the run to the end of the region from write_pos, as write does
peek_until_write_pos(b, s, buf) ==
    LET d == s.data
        l == len(b, s)
        to_read == Min(l.val, Len(buf))
        bytes_until_end == Sub(b, Len(d), s.write_pos)
        bue == bytes_until_end.val
        wraps == bue <= to_read
        rest == Sub(b, to_read, bue)
        stop == Add(b, s.read_pos, to_read)
        wrapsOK ==
            /\ ~rest.panic
            /\ RangeOK(0, bue, Len(buf))
            /\ RangeOK(s.read_pos, Len(d), Len(d))
            /\ bue = Len(d) - s.read_pos
            /\ RangeOK(bue, to_read, Len(buf))
            /\ RangeOK(0, rest.val, Len(d))
            /\ to_read - bue = rest.val
        straightOK ==
            /\ ~stop.panic
            /\ RangeOK(0, to_read, Len(buf))
            /\ RangeOK(s.read_pos, stop.val, Len(d))
            /\ to_read = stop.val - s.read_pos
        panic ==
            \/ AssertFails(b, s)
            \/ l.panic
            \/ bytes_until_end.panic
            \/ IF wraps THEN ~wrapsOK ELSE ~straightOK
    IN  IF panic
        THEN [panic |-> TRUE, ret |-> 0, buf |-> buf]
        ELSE IF wraps
        THEN [panic |-> FALSE, ret |-> to_read,
              buf |-> CopyInto(CopyInto(buf, 0, Slice(d, s.read_pos, Len(d))),
                               bue, Slice(d, 0, rest.val))]
        ELSE [panic |-> FALSE, ret |-> to_read,
              buf |-> CopyInto(buf, 0, Slice(d, s.read_pos, stop.val))]

\* peek that copies up to capacity() bytes, stored or not
peek_to_capacity(b, s, buf) ==
    LET d == s.data
        l == len(b, s)
        to_read == Min(Len(d) - 1, Len(buf))
        bytes_until_end == Sub(b, Len(d), s.read_pos)
        bue == bytes_until_end.val
        wraps == bue <= to_read
        rest == Sub(b, to_read, bue)
        stop == Add(b, s.read_pos, to_read)
        wrapsOK ==
            /\ ~rest.panic
            /\ RangeOK(0, bue, Len(buf))
            /\ RangeOK(s.read_pos, Len(d), Len(d))
            /\ bue = Len(d) - s.read_pos
            /\ RangeOK(bue, to_read, Len(buf))
            /\ RangeOK(0, rest.val, Len(d))
            /\ to_read - bue = rest.val
        straightOK ==
            /\ ~stop.panic
            /\ RangeOK(0, to_read, Len(buf))
            /\ RangeOK(s.read_pos, stop.val, Len(d))
            /\ to_read = stop.val - s.read_pos
        panic ==
            \/ AssertFails(b, s)
            \/ l.panic
            \/ bytes_until_end.panic
            \/ IF wraps THEN ~wrapsOK ELSE ~straightOK
    IN  IF panic
        THEN [panic |-> TRUE, ret |-> 0, buf |-> buf]
        ELSE IF wraps
        THEN [panic |-> FALSE, ret |-> to_read,
              buf |-> CopyInto(CopyInto(buf, 0, Slice(d, s.read_pos, Len(d))),
                               bue, Slice(d, 0, rest.val))]
        ELSE [panic |-> FALSE, ret |-> to_read,
              buf |-> CopyInto(buf, 0, Slice(d, s.read_pos, stop.val))]

peek(b, s, buf) ==
    LET d == s.data
        l == len(b, s)
        to_read == Min(l.val, Len(buf))
        bytes_until_end == Sub(b, Len(d), s.read_pos)
        bue == bytes_until_end.val
        wraps == bue <= to_read
        rest == Sub(b, to_read, bue)
        stop == Add(b, s.read_pos, to_read)
        wrapsOK ==
            /\ ~rest.panic
            /\ RangeOK(0, bue, Len(buf))
            /\ RangeOK(s.read_pos, Len(d), Len(d))
            /\ bue = Len(d) - s.read_pos
            /\ RangeOK(bue, to_read, Len(buf))
            /\ RangeOK(0, rest.val, Len(d))
            /\ to_read - bue = rest.val
        straightOK ==
            /\ ~stop.panic
            /\ RangeOK(0, to_read, Len(buf))
            /\ RangeOK(s.read_pos, stop.val, Len(d))
            /\ to_read = stop.val - s.read_pos
        panic ==
            \/ AssertFails(b, s)
            \/ l.panic
            \/ bytes_until_end.panic
            \/ IF wraps THEN ~wrapsOK ELSE ~straightOK
    IN  IF panic
        THEN [panic |-> TRUE, ret |-> 0, buf |-> buf]
        ELSE IF wraps
        THEN [panic |-> FALSE, ret |-> to_read,
              buf |-> CopyInto(CopyInto(buf, 0, Slice(d, s.read_pos, Len(d))),
                               bue, Slice(d, 0, rest.val))]
        ELSE [panic |-> FALSE, ret |-> to_read,
              buf |-> CopyInto(buf, 0, Slice(d, s.read_pos, stop.val))]

read(b, s, buf) ==
    LET p == peek(b, s, buf)
        a == advance_read_pos(b, s, p.ret)
    IN  IF AssertFails(b, s) \/ p.panic
        THEN [panic |-> TRUE, err |-> FALSE, ret |-> 0, buf |-> buf, rb |-> s]
        ELSE IF a.panic
        THEN [panic |-> TRUE, err |-> FALSE, ret |-> 0, buf |-> p.buf, rb |-> s]
        ELSE IF a.err
        THEN [panic |-> FALSE, err |-> TRUE, ret |-> 0, buf |-> p.buf, rb |-> s]
        ELSE [panic |-> FALSE, err |-> FALSE, ret |-> p.ret, buf |-> p.buf, rb |-> a.rb]

\* write that wraps only past the end of the region, not on it
write_no_wrap_at_end(b, s, buf) ==
    LET d == s.data
        c == capacity(b, s)
        l == len(b, s)
        free == Sub(b, c.val, l.val)
        to_write == Min(free.val, Len(buf))
        bytes_until_end == Sub(b, Len(d), s.write_pos)
        bue == bytes_until_end.val
        wraps == bue < to_write
        rest == Sub(b, to_write, bue)
        stop == Add(b, s.write_pos, to_write)
        wrapsOK ==
            /\ ~rest.panic
            /\ RangeOK(s.write_pos, Len(d), Len(d))
            /\ RangeOK(0, bue, Len(buf))
            /\ Len(d) - s.write_pos = bue
            /\ RangeOK(0, rest.val, Len(d))
            /\ RangeOK(bue, to_write, Len(buf))
            /\ rest.val = to_write - bue
        straightOK ==
            /\ ~stop.panic
            /\ RangeOK(s.write_pos, stop.val, Len(d))
            /\ RangeOK(0, to_write, Len(buf))
            /\ stop.val - s.write_pos = to_write
        panic ==
            \/ AssertFails(b, s)
            \/ c.panic
            \/ l.panic
            \/ free.panic
            \/ bytes_until_end.panic
            \/ IF wraps THEN ~wrapsOK ELSE ~straightOK
    IN  IF panic
        THEN [panic |-> TRUE, ret |-> 0, rb |-> s]
        ELSE IF wraps
        THEN [panic |-> FALSE, ret |-> to_write,
              rb |-> RingBuf(CopyInto(CopyInto(d, s.write_pos, Slice(buf, 0, bue)),
                                      0, Slice(buf, bue, to_write)),
                             s.read_pos, rest.val)]
        ELSE [panic |-> FALSE, ret |-> to_write,
              rb |-> RingBuf(CopyInto(d, s.write_pos, Slice(buf, 0, to_write)),
                             s.read_pos, stop.val)]

write(b, s, buf) ==
    LET d == s.data
        c == capacity(b, s)
        l == len(b, s)
        free == Sub(b, c.val, l.val)
        to_write == Min(free.val, Len(buf))
        bytes_until_end == Sub(b, Len(d), s.write_pos)
        bue == bytes_until_end.val
        wraps == bue <= to_write
        rest == Sub(b, to_write, bue)
        stop == Add(b, s.write_pos, to_write)
        wrapsOK ==
            /\ ~rest.panic
            /\ RangeOK(s.write_pos, Len(d), Len(d))
            /\ RangeOK(0, bue, Len(buf))
            /\ Len(d) - s.write_pos = bue
            /\ RangeOK(0, rest.val, Len(d))
            /\ RangeOK(bue, to_write, Len(buf))
            /\ rest.val = to_write - bue
        straightOK ==
            /\ ~stop.panic
            /\ RangeOK(s.write_pos, stop.val, Len(d))
            /\ RangeOK(0, to_write, Len(buf))
            /\ stop.val - s.write_pos = to_write
        panic ==
            \/ AssertFails(b, s)
            \/ c.panic
            \/ l.panic
            \/ free.panic
            \/ bytes_until_end.panic
            \/ IF wraps THEN ~wrapsOK ELSE ~straightOK
    IN  IF panic
        THEN [panic |-> TRUE, ret |-> 0, rb |-> s]
        ELSE IF wraps
        THEN [panic |-> FALSE, ret |-> to_write,
              rb |-> RingBuf(CopyInto(CopyInto(d, s.write_pos, Slice(buf, 0, bue)),
                                      0, Slice(buf, bue, to_write)),
                             s.read_pos, rest.val)]
        ELSE [panic |-> FALSE, ret |-> to_write,
              rb |-> RingBuf(CopyInto(d, s.write_pos, Slice(buf, 0, to_write)),
                             s.read_pos, stop.val)]

flush(b, s) == [panic |-> AssertFails(b, s)]

\* from that takes the region to be full of data, as From<Vec<u8>> does
from_box_full(s) == RingBuf(s, 0, IF Len(s) = 0 THEN 0 ELSE Len(s) - 1)

\* <RingBuf as From<Box<[u8]>>>::from
from_box(s) == RingBuf(s, 0, 0)

\* <RingBuf as From<Vec<u8>>>::from
\* from without the sentinel byte
from_vec_no_sentinel(b, s) ==
    LET wp == Sub(b, Len(s), 1)
    IN  [panic |-> wp.panic, rb |-> RingBuf(s, 0, wp.val)]

from_vec(b, s) ==
    LET pushed == Append(s, 0)
        wp == Sub(b, Len(pushed), 1)
    IN  [panic |-> wp.panic, rb |-> RingBuf(pushed, 0, wp.val)]

with_capacity(b, cap) ==
    LET n == Add(b, cap, 1)
    IN  IF n.panic
        THEN [panic |-> TRUE, rb |-> RingBuf(<<>>, 0, 0)]
        ELSE [panic |-> FALSE, rb |-> from_box(Zeros(n.val))]

(* --------------------------- the state machine ------------------------- *)
(* One thread owns the buffer (&mut self): it constructs it, then makes    *)
(* one call after another.  status is where that thread stands: "new"      *)
(* before construction, "returned" right after a call (last holds the      *)
(* call and what it gave back), "idle" between calls, "panicked" once a    *)
(* call has aborted.  abs is the byte sequence a FIFO queue would hold     *)
(* after the same calls.                                                   *)

\* what the last call was, what it was given and what it gave back
Call(op, arg, count, ret, out, err) ==
    [op |-> op, arg |-> arg, count |-> count, ret |-> ret, out |-> out, err |-> err]

NoCall == Call("none", <<>>, 0, 0, <<>>, FALSE)

\* s[n..]
Drop(s, n) == SubSeq(s, n + 1, Len(s))

\* s[..n]
Take(s, n) == SubSeq(s, 1, n)

Store(rb) ==
    /\ data' = rb.data
    /\ read_pos' = rb.read_pos
    /\ write_pos' = rb.write_pos

\* a panic unwinds the calling thread: nothing is called on the buffer again
Panic(op, arg, count) ==
    /\ status' = "panicked"
    /\ last' = Call(op, arg, count, 0, <<>>, FALSE)
    /\ UNCHANGED <<build, data, read_pos, write_pos, abs>>

\* a call that only reads the buffer returns
Returns(call) ==
    /\ status' = "returned"
    /\ last' = call
    /\ UNCHANGED <<build, data, read_pos, write_pos, abs>>

Init ==
    /\ build \in {"debug", "release"}
    /\ status = "new"
    /\ data = <<>>
    /\ read_pos = 0
    /\ write_pos = 0
    /\ abs = <<>>
    /\ last = NoCall

WithCapacity(cap) ==
    /\ status = "new"
    /\ LET r == with_capacity(build, cap)
       IN  IF r.panic
           THEN Panic("with_capacity", <<>>, cap)
           ELSE /\ Store(r.rb)
                /\ status' = "returned"
                /\ abs' = <<>>
                /\ last' = Call("with_capacity", <<>>, cap, 0, <<>>, FALSE)
                /\ UNCHANGED build

FromBox(s) ==
    /\ status = "new"
    /\ Store(from_box(s))
    /\ status' = "returned"
    /\ abs' = <<>>
    /\ last' = Call("from_box", s, 0, 0, <<>>, FALSE)
    /\ UNCHANGED build

FromVec(s) ==
    /\ status = "new"
    /\ LET r == from_vec(build, s)
       IN  IF r.panic
           THEN Panic("from_vec", s, 0)
           ELSE /\ Store(r.rb)
                /\ status' = "returned"
                /\ abs' = s
                /\ last' = Call("from_vec", s, 0, 0, <<>>, FALSE)
                /\ UNCHANGED build

Capacity ==
    /\ status = "idle"
    /\ LET r == capacity(build, self)
       IN  IF r.panic
           THEN Panic("capacity", <<>>, 0)
           ELSE Returns(Call("capacity", <<>>, 0, r.val, <<>>, FALSE))

LenQuery ==
    /\ status = "idle"
    /\ LET r == len(build, self)
       IN  IF r.panic
           THEN Panic("len", <<>>, 0)
           ELSE Returns(Call("len", <<>>, 0, r.val, <<>>, FALSE))

IsEmpty ==
    /\ status = "idle"
    /\ LET r == is_empty(build, self)
       IN  IF r.panic
           THEN Panic("is_empty", <<>>, 0)
           ELSE Returns(Call("is_empty", <<>>, 0, IF r.val THEN 1 ELSE 0, <<>>, FALSE))

Clear ==
    /\ status = "idle"
    /\ LET r == clear(build, self)
       IN  IF r.panic
           THEN Panic("clear", <<>>, 0)
           ELSE /\ Store(r.rb)
                /\ status' = "returned"
                /\ abs' = <<>>
                /\ last' = Call("clear", <<>>, 0, 0, <<>>, FALSE)
                /\ UNCHANGED build

AdvanceReadPos(count) ==
    /\ status = "idle"
    /\ LET r == advance_read_pos(build, self, count)
       IN  IF r.panic
           THEN Panic("advance_read_pos", <<>>, count)
           ELSE /\ Store(r.rb)
                /\ status' = "returned"
                /\ abs' = IF r.err THEN abs ELSE Drop(abs, count)
                /\ last' = Call("advance_read_pos", <<>>, count, 0, <<>>, r.err)
                /\ UNCHANGED build

Peek(buf) ==
    /\ status = "idle"
    /\ LET r == peek(build, self, buf)
       IN  IF r.panic
           THEN Panic("peek", buf, 0)
           ELSE Returns(Call("peek", buf, 0, r.ret, r.buf, FALSE))

Read(buf) ==
    /\ status = "idle"
    /\ LET r == read(build, self, buf)
       IN  IF r.panic
           THEN Panic("read", buf, 0)
           ELSE /\ Store(r.rb)
                /\ status' = "returned"
                /\ abs' = IF r.err THEN abs ELSE Drop(abs, r.ret)
                /\ last' = Call("read", buf, 0, r.ret, r.buf, r.err)
                /\ UNCHANGED build

Write(buf) ==
    /\ status = "idle"
    /\ LET r == write(build, self, buf)
       IN  IF r.panic
           THEN Panic("write", buf, 0)
           ELSE /\ Store(r.rb)
                /\ status' = "returned"
                /\ abs' = abs \o Take(buf, r.ret)
                /\ last' = Call("write", buf, 0, r.ret, <<>>, FALSE)
                /\ UNCHANGED build

Flush ==
    /\ status = "idle"
    /\ LET r == flush(build, self)
       IN  IF r.panic
           THEN Panic("flush", <<>>, 0)
           ELSE Returns(Call("flush", <<>>, 0, 0, <<>>, FALSE))

\* the caller has looked at the result and is ready for its next call
Resume ==
    /\ status = "returned"
    /\ status' = "idle"
    /\ last' = NoCall
    /\ UNCHANGED <<build, data, read_pos, write_pos, abs>>

Next ==
    \/ \E cap \in Caps : WithCapacity(cap)
    \/ \E s \in Boxes : FromBox(s)
    \/ \E s \in Vecs : FromVec(s)
    \/ Capacity
    \/ LenQuery
    \/ IsEmpty
    \/ Clear
    \/ \E count \in Counts : AdvanceReadPos(count)
    \/ \E buf \in Dests : Peek(buf)
    \/ \E buf \in Dests : Read(buf)
    \/ \E buf \in Srcs : Write(buf)
    \/ Flush
    \/ Resume

Spec == Init /\ [][Next]_vars

(* ------------------------------- claims -------------------------------- *)
(* The properties of the calls are stated for a buffer over a region of    *)
(* length >= 1, the region every well-formed construction gives.  A        *)
(* zero-length region comes only from From<Box<[u8]>> of an empty region   *)
(* and from with_capacity(usize::MAX) in a release build; both are         *)
(* reachable here and are what C10 and C20 are about.                      *)

\* a buffer exists and its thread has not aborted
Constructed == status \in {"idle", "returned"}

\* a buffer over a region of length >= 1
Live == Constructed /\ Len(data) >= 1

\* the number of bytes between the cursors, going round the region
StoredLen(s) == (s.write_pos - s.read_pos) % Len(s.data)

\* those bytes, from read_pos onward, wrapping to index 0 at the end
Stored(s) ==
    [i \in 1 .. StoredLen(s) |-> s.data[((s.read_pos + i - 1) % Len(s.data)) + 1]]

\* this step is a call of op that came back
Called(op) == status = "idle" /\ last'.op = op

\* C1: FIFO order across wraparound. On a buffer of capacity >= 1, after any
\* calls, the len() bytes from read_pos onward (wrapping at the end of the
\* region) are the byte sequence a FIFO queue holds after the same calls, and
\* peek and read hand out the front of that sequence, in order.
C1_FifoOrder ==
    /\ [](Live /\ Len(data) >= 2 =>
            /\ Stored(self) = abs
            /\ len(build, self).val = Len(abs)
            /\ (last.op = "peek" =>
                    /\ last.ret = Min(Len(abs), Len(last.arg))
                    /\ Take(last.out, last.ret) = Take(abs, last.ret)))
    /\ [][Called("read") /\ Len(data) >= 2 =>
            /\ status' = "returned"
            /\ last'.ret = Min(Len(abs), Len(last'.arg))
            /\ Take(last'.out, last'.ret) = Take(abs, last'.ret)
            /\ abs' = Drop(abs, last'.ret)]_vars

\* C1 witness: a peek returned bytes that straddle the end of the region
C1_Witness ==
    /\ status = "returned"
    /\ last.op = "peek"
    /\ read_pos > write_pos
    /\ write_pos > 0
    /\ last.ret = Len(abs)
    /\ Len(data) - read_pos < last.ret
    /\ last.out[1] # last.out[last.ret]

\* C2: short write. write(src) returns n = min(capacity() - len(), src.len()),
\* appends the first n bytes of src after the stored bytes and raises len() by
\* n; with src longer than the free space, n is the free space.
C2_ShortWrite ==
    [][Called("write") /\ Len(data) >= 1 =>
        LET free == (Len(data) - 1) - StoredLen(self)
            n == Min(free, Len(last'.arg))
        IN  /\ status' = "returned"
            /\ n = Min(capacity(build, self).val - len(build, self).val, Len(last'.arg))
            /\ last'.ret = n
            /\ Stored(self') = Stored(self) \o Take(last'.arg, n)
            /\ len(build', self').val = len(build, self).val + n
            /\ read_pos' = read_pos
            /\ (Len(last'.arg) > free => last'.ret = free)]_vars

\* C2 witness: a write of more than the free space into a buffer that held
\* bytes, accepted in part, the accepted bytes reaching the end of the region
C2_Witness ==
    /\ status = "returned"
    /\ last.op = "write"
    /\ 0 < last.ret
    /\ last.ret < Len(last.arg)
    /\ last.ret < Len(abs)
    /\ write_pos < last.ret

\* C3: read(dest) is peek(dest) followed by advance_read_pos of the count
\* peek returned: same count, same bytes in dest, same cursors; the inner
\* advance_read_pos never fails; len() goes down by the returned count.
C3_ReadIsPeekThenAdvance ==
    [][Called("read") /\ Len(data) >= 1 =>
        LET p == peek(build, self, last'.arg)
            a == advance_read_pos(build, self, p.ret)
        IN  /\ status' = "returned"
            /\ ~p.panic
            /\ ~a.panic
            /\ ~a.err
            /\ ~last'.err
            /\ last'.ret = p.ret
            /\ last'.out = p.buf
            /\ self' = a.rb
            /\ StoredLen(self') = StoredLen(self) - last'.ret
            /\ len(build', self').val = len(build, self).val - last'.ret]_vars

\* C3 witness: a read that took every stored byte, wrapping round the region
C3_Witness ==
    /\ status = "returned"
    /\ last.op = "read"
    /\ ~last.err
    /\ last.ret >= 2
    /\ abs = <<>>
    /\ 0 < read_pos
    /\ read_pos < last.ret

\* C4: peek does not consume. peek(dest) returns min(len(), dest.len()) and
\* leaves the cursors, the region, len(), is_empty() and capacity() as they
\* were, so a second peek with the same dest gives the same count and bytes.
C4_PeekDoesNotConsume ==
    [][Called("peek") /\ Len(data) >= 1 =>
        /\ status' = "returned"
        /\ last'.ret = Min(StoredLen(self), Len(last'.arg))
        /\ last'.ret = Min(len(build, self).val, Len(last'.arg))
        /\ self' = self
        /\ len(build', self') = len(build, self)
        /\ is_empty(build', self') = is_empty(build, self)
        /\ capacity(build', self') = capacity(build, self)
        /\ LET again == peek(build', self', last'.arg)
           IN  /\ ~again.panic
               /\ again.ret = last'.ret
               /\ again.buf = last'.out]_vars

\* C4 witness: a peek that returned bytes from a buffer whose bytes wrap
C4_Witness ==
    /\ status = "returned"
    /\ last.op = "peek"
    /\ last.ret >= 1
    /\ last.ret < Len(abs)
    /\ read_pos > write_pos

\* C5: advance_read_pos(count) with count > len() returns the InvalidInput
\* error and leaves read_pos, write_pos, the region and len() unchanged.
C5_OverSeekRejected ==
    [][Called("advance_read_pos") /\ Len(data) >= 1 /\ last'.count > StoredLen(self) =>
        /\ status' = "returned"
        /\ last'.err
        /\ self' = self
        /\ len(build', self') = len(build, self)
        /\ abs' = abs]_vars

\* C5 witness: an over-seek on a buffer that holds bytes was refused
C5_Witness ==
    /\ status = "returned"
    /\ last.op = "advance_read_pos"
    /\ last.err
    /\ Len(abs) >= 1
    /\ last.count <= Len(data) - 1

\* C6: advance_read_pos(count) with count <= len() succeeds, sets read_pos to
\* (read_pos + count) mod data.len(), leaves write_pos alone and lowers len()
\* by count; with count == len() the buffer becomes empty.
C6_AdvanceSucceeds ==
    [][Called("advance_read_pos") /\ Len(data) >= 1 /\ last'.count <= StoredLen(self) =>
        /\ status' = "returned"
        /\ ~last'.err
        /\ read_pos' = (read_pos + last'.count) % Len(data)
        /\ write_pos' = write_pos
        /\ data' = data
        /\ len(build', self').val = len(build, self).val - last'.count
        /\ StoredLen(self') = StoredLen(self) - last'.count
        /\ (last'.count = StoredLen(self) =>
                is_empty(build', self').val /\ len(build', self').val = 0)]_vars

\* C6 witness: an advance that landed exactly on the end of the region
C6_Witness ==
    /\ status = "returned"
    /\ last.op = "advance_read_pos"
    /\ ~last.err
    /\ last.count >= 1
    /\ read_pos = 0
    /\ Len(abs) >= 1

\* C7: length bound. On a buffer over a region of length >= 1, after any
\* calls, 0 <= len() <= capacity(); len() is computed without underflow and
\* never reaches data.len().
C7_LengthBound ==
    Live =>
        /\ ~len("debug", self).panic
        /\ ~capacity("debug", self).panic
        /\ 0 <= len(build, self).val
        /\ len(build, self).val <= capacity(build, self).val
        /\ len(build, self).val < Len(data)

\* C7 witness: a buffer filled to capacity whose bytes wrap
C7_Witness ==
    /\ Live
    /\ Len(data) >= 2
    /\ read_pos > write_pos
    /\ len(build, self).val = capacity(build, self).val

\* C8: empty is cursor equality. read_pos == write_pos (is_empty()) exactly
\* when len() == 0, exactly when every accepted byte has been consumed or
\* discarded; filling a buffer of capacity >= 1 never makes the cursors equal.
C8_EmptyIsCursorEquality ==
    Live =>
        /\ (read_pos = write_pos) = (len(build, self).val = 0)
        /\ is_empty(build, self).val = (read_pos = write_pos)
        /\ is_empty(build, self).val = (abs = <<>>)
        /\ (Len(data) >= 2 /\ Len(abs) >= Len(data) - 1 => read_pos # write_pos)

\* C8 witness: a write filled the buffer to capacity, the write cursor
\* having gone round the region
C8_Witness ==
    /\ status = "returned"
    /\ last.op = "write"
    /\ last.ret >= 1
    /\ Len(data) >= 2
    /\ Len(abs) = Len(data) - 1
    /\ write_pos < read_pos

\* C9: full on construct. A RingBuf built from a Vec of length N has
\* capacity() == N and len() == N, is not empty for N >= 1, peek into a
\* destination of length >= N returns N and the N bytes in order, and a
\* following write of any src returns 0.
C9_FullOnConstruct ==
    last.op = "from_vec" =>
        LET N == Len(last.arg)
        IN  /\ status = "returned"
            /\ ~capacity("debug", self).panic
            /\ capacity(build, self).val = N
            /\ ~len("debug", self).panic
            /\ len(build, self).val = N
            /\ (N >= 1 => ~is_empty(build, self).val)
            /\ \A dest \in Dests :
                    Len(dest) >= N =>
                        LET p == peek(build, self, dest)
                        IN  /\ ~p.panic
                            /\ p.ret = N
                            /\ Take(p.buf, N) = last.arg
            /\ \A src \in Srcs :
                    LET w == write(build, self, src)
                    IN  /\ ~w.panic
                        /\ w.ret = 0
                        /\ w.rb = self

\* C9 witness: a buffer fresh from a Vec of two different bytes
C9_Witness ==
    /\ status = "returned"
    /\ last.op = "from_vec"
    /\ Len(last.arg) >= 2
    /\ last.arg[1] # last.arg[2]

\* C10: with_capacity(capacity), for every capacity value of usize, yields a
\* buffer with capacity() == capacity, len() == 0 and is_empty() true over a
\* region of length capacity + 1.
C10_WithCapacity ==
    last.op = "with_capacity" =>
        /\ status = "returned"
        /\ Len(data) = last.count + 1
        /\ ~capacity("debug", self).panic
        /\ capacity(build, self).val = last.count
        /\ len(build, self).val = 0
        /\ is_empty(build, self).val

\* C11: sentinel slot. A RingBuf built from an owned fixed region of length
\* N >= 1 has capacity() == N - 1 and starts empty (both cursors 0, len() 0)
\* whatever bytes the region holds, and never stores more than N - 1 bytes.
C11_SentinelSlot ==
    /\ (last.op = "from_box" /\ Len(last.arg) >= 1 =>
            /\ status = "returned"
            /\ data = last.arg
            /\ ~capacity("debug", self).panic
            /\ capacity(build, self).val = Len(last.arg) - 1
            /\ read_pos = 0
            /\ write_pos = 0
            /\ len(build, self).val = 0
            /\ is_empty(build, self).val
            /\ abs = <<>>)
    /\ (Live => Len(abs) <= Len(data) - 1 /\ len(build, self).val <= Len(data) - 1)

\* C11 witness: a buffer fresh from a region of length >= 2 that holds a
\* non-zero byte
C11_Witness ==
    /\ status = "returned"
    /\ last.op = "from_box"
    /\ Len(last.arg) >= 2
    /\ last.arg[1] # 0

\* C12: clear() from any state leaves len() == 0 and is_empty() true with
\* both cursors at 0 and capacity() unchanged; a second clear() changes
\* nothing more, and the cleared buffer accepts a write of capacity() bytes.
C12_Clear ==
    [][Called("clear") /\ Len(data) >= 1 =>
        /\ status' = "returned"
        /\ read_pos' = 0
        /\ write_pos' = 0
        /\ data' = data
        /\ abs' = <<>>
        /\ ~len("debug", self').panic
        /\ len(build', self').val = 0
        /\ is_empty(build', self').val
        /\ capacity(build', self') = capacity(build, self)
        /\ ~clear(build', self').panic
        /\ clear(build', self').rb = self'
        /\ \A src \in Srcs :
                LET w == write(build', self', src)
                IN  /\ ~w.panic
                    /\ w.ret = Min(Len(data) - 1, Len(src))]_vars

\* C12 witness: a cleared buffer of capacity >= 1 whose region still holds
\* a byte that was stored in it
C12_Witness ==
    /\ status = "returned"
    /\ last.op = "clear"
    /\ Len(data) >= 2
    /\ read_pos = 0
    /\ write_pos = 0
    /\ \E i \in 1 .. Len(data) : data[i] # 0

\* a call that gave back Ok: it neither panicked nor returned an error
Total(r) == ~r.panic

\* C13: totality. On a buffer over a region of length >= 1, in every
\* reachable state and for every slice length (0 included), peek, read, write,
\* flush and the queries return Ok and never panic: every slice range lies
\* within the region and the caller's slice, both sides of each copy have the
\* same length, and no unsigned subtraction underflows (the calls are
\* evaluated with overflow checks on as well as in the build at hand).
C13_Totality ==
    /\ (status = "idle" /\ Len(data) >= 1 =>
            \A b \in {"debug", build} :
                /\ Total(capacity(b, self))
                /\ Total(len(b, self))
                /\ Total(is_empty(b, self))
                /\ Total(flush(b, self))
                /\ \A buf \in Dests :
                        /\ Total(peek(b, self, buf))
                        /\ Total(read(b, self, buf))
                        /\ ~read(b, self, buf).err
                /\ \A buf \in Srcs : Total(write(b, self, buf)))
    /\ (status = "panicked" => Len(data) = 0)
    /\ (Live /\ last.op \in {"peek", "read", "write", "flush"} => ~last.err)

\* C13 witness: a read into a zero-length slice came back from a full buffer
\* whose bytes wrap round the region
C13_Witness ==
    /\ status = "returned"
    /\ last.op = "read"
    /\ Len(last.arg) = 0
    /\ ~last.err
    /\ read_pos > write_pos
    /\ Len(abs) = Len(data) - 1

\* C14: write-then-read round trip. On an empty buffer, at whatever position
\* its cursors stand, for every byte sequence S with len(S) <= capacity(),
\* write(S) returns len(S) and a following read into a destination of size
\* >= len(S) returns len(S), puts S at the start of the destination and
\* leaves the buffer empty.
C14_RoundTrip ==
    status = "idle" /\ Len(data) >= 1 /\ read_pos = write_pos =>
        \A S \in Srcs :
            Len(S) <= Len(data) - 1 =>
                LET w == write(build, self, S)
                IN  /\ ~w.panic
                    /\ w.ret = Len(S)
                    /\ \A dest \in Dests :
                            Len(dest) >= Len(S) =>
                                LET r == read(build, w.rb, dest)
                                IN  /\ ~r.panic
                                    /\ ~r.err
                                    /\ r.ret = Len(S)
                                    /\ Take(r.buf, Len(S)) = S
                                    /\ r.rb.read_pos = r.rb.write_pos
                                    /\ is_empty(build, r.rb).val
                                    /\ len(build, r.rb).val = 0

\* C14 witness: a read gave back capacity() bytes, not all equal, that had
\* been written across the end of the region, and left the buffer empty
C14_Witness ==
    /\ status = "returned"
    /\ last.op = "read"
    /\ ~last.err
    /\ Len(data) >= 3
    /\ last.ret = Len(data) - 1
    /\ last.out[1] # last.out[2]
    /\ abs = <<>>
    /\ read_pos = write_pos
    /\ 0 < read_pos
    /\ read_pos < last.ret

\* C15, as stated: a read that returns 0 means the buffer was empty. If
\* read(dest) returns Ok(0), for whatever destination, len() was 0 before
\* the call.
C15_ReadZeroMeansEmpty ==
    [][Called("read") /\ Len(data) >= 1 /\ status' = "returned" /\ ~last'.err
            /\ last'.ret = 0 =>
        len(build, self).val = 0]_vars

\* C15, amended: if read(dest) returns Ok(0) for a destination of length
\* >= 1, len() was 0 before the call (a zero-length destination gets 0
\* whatever the buffer holds).
C15_ReadZeroMeansEmptyOrNoRoom ==
    [][Called("read") /\ Len(data) >= 1 /\ status' = "returned" /\ ~last'.err
            /\ last'.ret = 0 /\ Len(last'.arg) >= 1 =>
        /\ len(build, self).val = 0
        /\ StoredLen(self) = 0
        /\ abs = <<>>
        /\ read_pos = write_pos]_vars

\* C15 witness: a read into a destination of length >= 1 returned 0, the
\* cursors standing past the start of the region
C15_Witness ==
    /\ status = "returned"
    /\ last.op = "read"
    /\ ~last.err
    /\ last.ret = 0
    /\ Len(last.arg) >= 1
    /\ read_pos > 0
    /\ abs = <<>>

\* C16: a capacity-0 buffer never holds data. On the buffer with_capacity(0)
\* gives (a region of length 1), after any calls, every write returns 0 for
\* every src without panicking, len() stays 0, is_empty() stays true, and
\* peek and read return 0.
C16_CapacityZero ==
    /\ (last.op = "with_capacity" /\ last.count = 0 =>
            status = "returned" /\ data = <<0>>)
    /\ (status = "panicked" => Len(data) # 1)
    /\ (Constructed /\ Len(data) = 1 =>
            /\ capacity(build, self).val = 0
            /\ read_pos = 0
            /\ write_pos = 0
            /\ len(build, self).val = 0
            /\ is_empty(build, self).val
            /\ abs = <<>>
            /\ (last.op \in {"write", "peek", "read"} => last.ret = 0 /\ ~last.err)
            /\ (status = "idle" =>
                    /\ \A src \in Srcs :
                            LET w == write(build, self, src)
                            IN  ~w.panic /\ w.ret = 0 /\ w.rb = self
                    /\ \A dest \in Dests :
                            LET p == peek(build, self, dest)
                                r == read(build, self, dest)
                            IN  /\ ~p.panic /\ p.ret = 0 /\ p.buf = dest
                                /\ ~r.panic /\ ~r.err /\ r.ret = 0 /\ r.rb = self))

\* C16 witness: a write of a non-empty src into the buffer with_capacity(0)
\* gives came back with 0
C16_Witness ==
    /\ status = "returned"
    /\ last.op = "write"
    /\ Len(last.arg) >= 1
    /\ last.ret = 0
    /\ data = <<0>>

\* C17: cursor bounds. On a buffer over a region of length >= 1, after
\* construction and after every call (a write or an advance that lands
\* exactly on the end of the region wraps to 0), 0 <= read_pos < data.len()
\* and 0 <= write_pos < data.len(): the assertions of check_valid never fail.
C17_CursorBounds ==
    Live =>
        /\ 0 <= read_pos
        /\ read_pos < Len(data)
        /\ 0 <= write_pos
        /\ write_pos < Len(data)
        /\ check_valid(self)
        /\ ~AssertFails("debug", self)

\* C17 witness: a write that landed exactly on the end of the region came
\* back with the write cursor at 0
C17_Witness ==
    /\ status = "returned"
    /\ last.op = "write"
    /\ last.ret >= 1
    /\ Len(data) >= 3
    /\ write_pos = 0
    /\ read_pos > 0
    /\ Len(abs) = last.ret

\* C18: full is "write cursor one behind read cursor". len() == capacity()
\* exactly when (write_pos + 1) mod data.len() == read_pos, and in exactly
\* those states write of a non-empty src returns 0.
C18_FullIsOneBehind ==
    Live =>
        LET full == (write_pos + 1) % Len(data) = read_pos
        IN  /\ (len(build, self).val = capacity(build, self).val) = full
            /\ (Len(abs) = Len(data) - 1) = full
            /\ (status = "idle" =>
                    \A src \in Srcs :
                        Len(src) >= 1 =>
                            LET w == write(build, self, src)
                            IN  ~w.panic /\ ((w.ret = 0) = full))

\* C18 witness: a write of a non-empty src came back with 0 from a buffer
\* of capacity >= 1 whose write cursor was one behind its read cursor
C18_Witness ==
    /\ status = "returned"
    /\ last.op = "write"
    /\ Len(last.arg) >= 1
    /\ last.ret = 0
    /\ Len(data) >= 2
    /\ write_pos + 1 = read_pos

\* C19: peek and read touch only the copied prefix of the destination. When
\* peek(dest) or read(dest) returns n, dest[0..n] holds the n oldest unread
\* bytes and every byte of dest[n..] has the value it had before the call.
C19_OnlyPrefixTouched ==
    [][(Called("peek") \/ Called("read")) /\ Len(data) >= 1
            /\ status' = "returned" /\ ~last'.err =>
        LET n == last'.ret
            dest == last'.arg
        IN  /\ n <= Len(dest)
            /\ n <= Len(abs)
            /\ Len(last'.out) = Len(dest)
            /\ Take(last'.out, n) = Take(abs, n)
            /\ Take(last'.out, n) = Take(Stored(self), n)
            /\ \A i \in (n + 1) .. Len(dest) : last'.out[i] = dest[i]]_vars

\* C19 witness: a read returned fewer bytes than the destination is long,
\* taken from across the end of the region, the rest of the destination
\* still holding the non-zero byte it was filled with
C19_Witness ==
    /\ status = "returned"
    /\ last.op = "read"
    /\ ~last.err
    /\ last.ret >= 2
    /\ last.ret < Len(last.arg)
    /\ last.arg[1] # 0
    /\ last.out[1] = 0
    /\ last.out[Len(last.arg)] = last.arg[Len(last.arg)]
    /\ 0 < read_pos
    /\ read_pos < last.ret

\* C20: the zero-length region is unguarded. From<Box<[u8]>> of a region of
\* length 0 is not rejected and returns a RingBuf with data.len() == 0 and
\* both cursors 0; there read_pos < data.len() is false and capacity()
\* evaluates 0 - 1, an unsigned underflow: it aborts (debug build) or wraps
\* to 2^w - 1 (release build).
C20_ZeroLengthRegion ==
    /\ (last.op = "from_box" /\ Len(last.arg) = 0 =>
            /\ status = "returned"
            /\ Len(data) = 0
            /\ read_pos = 0
            /\ write_pos = 0
            /\ ~(read_pos < Len(data))
            /\ ~check_valid(self)
            /\ Sub("debug", Len(data), 1).panic
            /\ capacity("debug", self).panic
            /\ ~capacity("release", self).panic
            /\ capacity("release", self).val = 2 ^ UsizeBits - 1)
    /\ (last.op = "capacity" /\ Len(data) = 0 =>
            IF build = "debug"
            THEN status = "panicked"
            ELSE status = "returned" /\ last.ret = 2 ^ UsizeBits - 1)

\* C20 witness: a buffer fresh from a region of length 0
C20_Witness ==
    /\ status = "returned"
    /\ last.op = "from_box"
    /\ Len(last.arg) = 0
    /\ Len(data) = 0

====
